---- MODULE Spec2Model ----
(***************************************************************************)
(* Model of frontend/src/services/api.js: the axios instance with its      *)
(* request and response interceptors, retryRequest, and the exported       *)
(* resource operations.  Each call of an exported operation is an          *)
(* asynchronous task; tasks interleave at their await points and share     *)
(* localStorage and window.location.                                       *)
(***************************************************************************)
EXTENDS Integers, Sequences, FiniteSets, TLC

(* ------------------------------------------------------------------ *)
(* Bounds                                                              *)
(* ------------------------------------------------------------------ *)

\* Total number of operation calls started in one behaviour.
MaxCalls == 2

\* Task slots: at most this many operation calls are in flight at once.
Tasks == {1, 2}

\* Largest retries argument passed to retryRequest in the single-task
\* specification.
MaxRetries == 3

(* ------------------------------------------------------------------ *)
(* Program constants                                                   *)
(* ------------------------------------------------------------------ *)

\* axios.create({ timeout: 10000 })
timeout == 10000

\* retryRequest = async (fn, retries = 3, delay = 1000)
retries == 3

delay == 1000

(* ------------------------------------------------------------------ *)
(* JavaScript values                                                   *)
(* ------------------------------------------------------------------ *)

\* undefined / null / an empty body: every falsy non-string value.
Undefined == [undefined |-> TRUE]

IsUndefined(v) == "undefined" \in DOMAIN v

\* localStorage.getItem of a missing key.
Null == "null"

\* Tokens and users the login flow of the application may store.
Tokens == {"tok1", "tok2"}

Users == {"user1"}

\* Payloads T a server wraps in an envelope ([id |-> 1] stands for [{id:1}]).
Payloads == {[id |-> 1], [id |-> 2]}

\* Response bodies of successful answers: the envelope {data: T, ...metadata}.
Envelopes == {[data |-> t, success |-> TRUE] : t \in Payloads}

\* Bodies of error answers: none, or a structured payload with an error field.
ErrorBodies == {Undefined, [error |-> "not found"]}

\* Statuses the server answers with in the pipeline specification: the two
\* the pipeline acts on (401, 429) and one it only classifies (404).
ServerStatuses == {401, 404, 429}

\* Time the server takes to answer, in ms.
Latencies == {200, 10001}

(* ------------------------------------------------------------------ *)
(* The exported operations (lines 106-473)                             *)
(* ------------------------------------------------------------------ *)

\* login calls api.post directly; every other operation wraps its request
\* in retryRequest.  Delete operations return res.data, the others
\* res.data.data.
login == [name |-> "login", method |-> "post", path |-> "/auth/login",
          wrapped |-> FALSE, unwrap |-> TRUE]

getApartments == [name |-> "getApartments", method |-> "get",
                  path |-> "/apartments", wrapped |-> TRUE, unwrap |-> TRUE]

deleteApartment == [name |-> "deleteApartment", method |-> "delete",
                    path |-> "/apartments/5", wrapped |-> TRUE,
                    unwrap |-> FALSE]

Operations == {login, getApartments, deleteApartment}

\* No operation: the task slot is free.
NoOp == [name |-> "none", method |-> "none", path |-> "none",
         wrapped |-> FALSE, unwrap |-> FALSE]

(* ------------------------------------------------------------------ *)
(* State                                                               *)
(* ------------------------------------------------------------------ *)

VARIABLES
  localStorage,   \* [ {"token","user"} -> value or Null ]
  pathname,       \* window.location.pathname
  navigating,     \* TRUE while an assigned location.href has not loaded yet
  navigations,    \* number of assignments to window.location.href
  started,        \* number of operation calls started
  pc,             \* per task: position in the operation
  op,             \* per task: the operation called
  i,              \* per task: retryRequest's loop index
  calls,          \* per task: number of requests handed to the transport
  waits,          \* per task: sequence of backoff delays waited
  config,         \* per task: descriptor of the request in flight, if any
  error,          \* per task: the rejection of the last request
  thrown,         \* per task: what retryRequest threw
  res,            \* per task: the response retryRequest returned
  result          \* per task: what the operation returned or threw

vars == <<localStorage, pathname, navigating, navigations, started, pc, op, i,
          calls, waits, config, error, thrown, res, result>>

shared == <<localStorage, pathname, navigating, navigations>>

(* ------------------------------------------------------------------ *)
(* Request interceptor (lines 14-25)                                   *)
(* ------------------------------------------------------------------ *)

\* if (token): null and the empty string are falsy.
Truthy(s) == s # Null /\ s # ""

Bearer(token) == [scheme |-> "Bearer", token |-> token]

RequestInterceptorNoAuth(cfg, token) == cfg

RequestInterceptor(cfg, token) ==
  IF Truthy(token) THEN [cfg EXCEPT !.Authorization = Bearer(token)] ELSE cfg

\* The descriptor axios builds for api.get/post/put/delete(path).
BaseConfig(o) == [method |-> o.method, url |-> o.path,
                  ContentType |-> "application/json",
                  Authorization |-> Undefined]

(* ------------------------------------------------------------------ *)
(* Transport outcomes                                                  *)
(* ------------------------------------------------------------------ *)

\* The rejection axios produces for an answer with a non-2xx status.
HttpFailure(status, body) ==
  [response |-> [status |-> status, data |-> body], request |-> TRUE,
   code |-> "ERR_BAD_RESPONSE"]

\* The rejection axios produces when no answer arrived within the timeout.
TimeoutFailure == [response |-> Undefined, request |-> TRUE,
                   code |-> "ECONNABORTED"]

\* The rejection axios produces when the network is unreachable.
UnreachableFailure == [response |-> Undefined, request |-> TRUE,
                       code |-> "ERR_NETWORK"]

\* The response axios resolves with for a 2xx answer.
Response(body) == [status |-> 200, data |-> body]

NoResponse == [status |-> 0, data |-> Undefined]

NoError == [response |-> Undefined, request |-> FALSE, code |-> "none"]

\* error.response?.status
StatusOf(e) == IF IsUndefined(e.response) THEN 0 ELSE e.response.status

(* ------------------------------------------------------------------ *)
(* Response interceptor (lines 46-103)                                 *)
(* ------------------------------------------------------------------ *)

\* The messages are the source's, written without their accents.

\* data?.error, "" when the body is absent or has no error field.
DataError(data) == IF "error" \in DOMAIN data THEN data.error ELSE ""

Or(s, fallback) == IF Truthy(s) THEN s ELSE fallback

errorMessageWithoutServerText(e) ==
  IF ~IsUndefined(e.response)
  THEN LET status == e.response.status
       IN CASE status = 400 -> "Datos invalidos"
            [] status = 401 ->
                 "Sesion expirada. Por favor, inicia sesion nuevamente"
            [] status = 403 -> "No tienes permisos para realizar esta accion"
            [] status = 404 -> "Recurso no encontrado"
            [] status = 422 -> "Datos de entrada invalidos"
            [] status = 429 ->
                 "Demasiadas solicitudes. Reintentando automaticamente..."
            [] status = 500 ->
                 "Error interno del servidor. Intentalo mas tarde"
            [] OTHER -> "Error " \o ToString(status)
  ELSE IF e.request
  THEN IF e.code = "ECONNABORTED"
       THEN "La solicitud ha tardado demasiado. Verifica tu conexion"
       ELSE "Error de conexion. Verifica tu conexion a internet"
  ELSE "Ha ocurrido un error inesperado"

errorMessage(e) ==
  IF ~IsUndefined(e.response)
  THEN LET status == e.response.status
           data == e.response.data
       IN CASE status = 400 -> Or(DataError(data), "Datos invalidos")
            [] status = 401 ->
                 "Sesion expirada. Por favor, inicia sesion nuevamente"
            [] status = 403 -> "No tienes permisos para realizar esta accion"
            [] status = 404 -> "Recurso no encontrado"
            [] status = 422 -> Or(DataError(data), "Datos de entrada invalidos")
            [] status = 429 ->
                 "Demasiadas solicitudes. Reintentando automaticamente..."
            [] status = 500 ->
                 "Error interno del servidor. Intentalo mas tarde"
            [] OTHER -> Or(DataError(data), "Error " \o ToString(status))
  ELSE IF e.request
  THEN IF e.code = "ECONNABORTED"
       THEN "La solicitud ha tardado demasiado. Verifica tu conexion"
       ELSE "Error de conexion. Verifica tu conexion a internet"
  ELSE "Ha ocurrido un error inesperado"

\* { ...error, userMessage: errorMessage, originalError: error }
enhancedError(e) ==
  [response |-> e.response, request |-> e.request, code |-> e.code,
   userMessage |-> errorMessage(e), originalError |-> e]

NoEnhanced == enhancedError(NoError)

UnauthorizedOrMissing(e) == StatusOf(e) \in {401, 404}

\* case 401:
Unauthorized(e) == StatusOf(e) = 401

\* localStorage.removeItem(key)
removeItem(store, key) == [store EXCEPT ![key] = Null]

ClearOnlyToken(store) == removeItem(store, "token")

\* case 401: removeItem('token'); removeItem('user')
ClearSession(store) == removeItem(removeItem(store, "token"), "user")

\* if (window.location.pathname !== '/login') window.location.href = '/login'
Redirects(path) == path # "/login"

(* ------------------------------------------------------------------ *)
(* retryRequest (lines 28-43)                                          *)
(* ------------------------------------------------------------------ *)

RECURSIVE Pow2(_)
Pow2(n) == IF n = 0 THEN 1 ELSE 2 * Pow2(n - 1)

\* retries = 3: the default applies when the caller passes no argument.
Retries(o) == IF "retries" \in DOMAIN o THEN o.retries ELSE retries

\* delay = 1000
Delay(o) == IF "delay" \in DOMAIN o THEN o.delay ELSE delay

ConstantDelay(d, k) == d

\* delay * Math.pow(2, i)
backoffDelay(d, k) == d * Pow2(k)

RetryAnyFailure(e, k, n) == k < n - 1

RetryUnbounded(e, k, n) == StatusOf(e) = 429

RetryTooFew(e, k, n) == StatusOf(e) = 429 /\ k < n - 2

\* error.response?.status === 429 && i < retries - 1
ShouldRetry(e, k, n) == StatusOf(e) = 429 /\ k < n - 1

(* ------------------------------------------------------------------ *)
(* Resource operations: return and catch (lines 106-125, 150-158)      *)
(* ------------------------------------------------------------------ *)

AlwaysEnvelope(o, r) == r.data

\* return res.data.data, or return res.data for the delete operations
OpReturn(o, r) == IF o.unwrap THEN r.data.data ELSE r.data

ConnectionError == [error |-> "Error de conexion"]

ThrowEnhanced(err) == err

\* throw err.response?.data || { error: "Error de conexion" }
OpThrow(err) ==
  IF ~IsUndefined(err.response) /\ ~IsUndefined(err.response.data)
  THEN err.response.data
  ELSE ConnectionError

(* ------------------------------------------------------------------ *)
(* Initial state                                                       *)
(* ------------------------------------------------------------------ *)

\* The session is either absent or was stored by an earlier login.
Sessions == {[token |-> Null, user |-> Null]}
            \cup [token : Tokens, user : Users]

Init ==
  /\ localStorage \in Sessions
  /\ pathname \in {"/login", "/dashboard"}
  /\ navigating = FALSE
  /\ navigations = 0
  /\ started = 0
  /\ pc = [t \in Tasks |-> "idle"]
  /\ op = [t \in Tasks |-> NoOp]
  /\ i = [t \in Tasks |-> 0]
  /\ calls = [t \in Tasks |-> 0]
  /\ waits = [t \in Tasks |-> <<>>]
  /\ config = [t \in Tasks |-> BaseConfig(NoOp)]
  /\ error = [t \in Tasks |-> NoEnhanced]
  /\ thrown = [t \in Tasks |-> NoEnhanced]
  /\ res = [t \in Tasks |-> NoResponse]
  /\ result = [t \in Tasks |-> Undefined]

(* ------------------------------------------------------------------ *)
(* Actions                                                             *)
(* ------------------------------------------------------------------ *)

\* A component calls an exported operation: the task enters its try block
\* and, for a wrapped operation, retryRequest's loop with i = 0.  When the
\* loop test 0 < retries fails, retryRequest returns undefined at once and
\* reading res.data raises a TypeError that the operation's catch turns into
\* the connection-error object.
Call(t, o) ==
  /\ pc[t] = "idle"
  /\ started < MaxCalls
  /\ started' = started + 1
  /\ op' = [op EXCEPT ![t] = o]
  /\ i' = [i EXCEPT ![t] = 0]
  /\ calls' = [calls EXCEPT ![t] = 0]
  /\ waits' = [waits EXCEPT ![t] = <<>>]
  /\ config' = [config EXCEPT ![t] = BaseConfig(NoOp)]
  /\ error' = [error EXCEPT ![t] = NoEnhanced]
  /\ thrown' = [thrown EXCEPT ![t] = NoEnhanced]
  /\ IF o.wrapped /\ ~(0 < Retries(o))
     THEN /\ pc' = [pc EXCEPT ![t] = "threw"]
          /\ res' = [res EXCEPT ![t] = Undefined]
          /\ result' = [result EXCEPT ![t] = ConnectionError]
     ELSE /\ pc' = [pc EXCEPT ![t] = "attempt"]
          /\ res' = [res EXCEPT ![t] = NoResponse]
          /\ result' = [result EXCEPT ![t] = Undefined]
  /\ UNCHANGED shared

\* fn(): api.get/post/put/delete builds the descriptor, the request
\* interceptor reads the token, and the request goes to the transport.
Send(t) ==
  /\ pc[t] = "attempt"
  /\ config' = [config EXCEPT
                  ![t] = RequestInterceptor(BaseConfig(op[t]),
                                            localStorage["token"])]
  /\ calls' = [calls EXCEPT ![t] = calls[t] + 1]
  /\ pc' = [pc EXCEPT ![t] = "inflight"]
  /\ UNCHANGED <<shared, started, op, i, waits, error, thrown, res, result>>

\* The server answers 2xx with an envelope within the timeout: the response
\* interceptor passes it through, retryRequest returns it and the operation
\* returns its payload.
Succeed(t, body) ==
  /\ pc[t] = "inflight"
  /\ \E lat \in Latencies : lat <= timeout
  /\ res' = [res EXCEPT ![t] = Response(body)]
  /\ result' = [result EXCEPT ![t] = OpReturn(op[t], Response(body))]
  /\ pc' = [pc EXCEPT ![t] = "returned"]
  /\ config' = [config EXCEPT ![t] = BaseConfig(NoOp)]
  /\ UNCHANGED <<shared, started, op, i, calls, waits, error, thrown>>

\* The response interceptor's error handler on the rejection e.  Assigning
\* window.location.href starts a navigation; pathname keeps its value until
\* the browser loads the page (LoadLogin).
Reject(t, e) ==
  /\ error' = [error EXCEPT ![t] = enhancedError(e)]
  /\ pc' = [pc EXCEPT ![t] = "caught"]
  /\ IF Unauthorized(e)
     THEN /\ localStorage' = ClearSession(localStorage)
          /\ IF Redirects(pathname)
             THEN /\ navigating' = TRUE
                  /\ navigations' = navigations + 1
             ELSE UNCHANGED <<navigating, navigations>>
     ELSE UNCHANGED <<localStorage, navigating, navigations>>
  /\ config' = [config EXCEPT ![t] = BaseConfig(NoOp)]
  /\ UNCHANGED <<pathname, started, op, i, calls, waits, thrown, res, result>>

\* The server answers with a non-2xx status within the timeout.
FailHttp(t, status, body) ==
  /\ pc[t] = "inflight"
  /\ \E lat \in Latencies : lat <= timeout
  /\ Reject(t, HttpFailure(status, body))

\* No answer arrives within the timeout: axios aborts the request.
FailTimeout(t) ==
  /\ pc[t] = "inflight"
  /\ \E lat \in Latencies : lat > timeout
  /\ Reject(t, TimeoutFailure)

\* The network is unreachable.
FailUnreachable(t) ==
  /\ pc[t] = "inflight"
  /\ Reject(t, UnreachableFailure)

\* retryRequest's catch, retry branch: wait backoffDelay, then continue.
Backoff(t) ==
  /\ pc[t] = "caught"
  /\ op[t].wrapped
  /\ ShouldRetry(error[t], i[t], Retries(op[t]))
  /\ waits' = [waits EXCEPT
                 ![t] = Append(waits[t], backoffDelay(Delay(op[t]), i[t]))]
  /\ pc' = [pc EXCEPT ![t] = "backoff"]
  /\ UNCHANGED <<shared, started, op, i, calls, config, error, thrown, res,
                 result>>

\* The backoff timer fires: continue increments i and tests i < retries.
\* When the test fails the loop ends, retryRequest returns undefined, and
\* reading res.data raises a TypeError that the operation's catch turns into
\* the connection-error object.
Resume(t) ==
  /\ pc[t] = "backoff"
  /\ i' = [i EXCEPT ![t] = i[t] + 1]
  /\ IF i[t] + 1 < Retries(op[t])
     THEN /\ pc' = [pc EXCEPT ![t] = "attempt"]
          /\ UNCHANGED <<res, result>>
     ELSE /\ pc' = [pc EXCEPT ![t] = "threw"]
          /\ res' = [res EXCEPT ![t] = Undefined]
          /\ result' = [result EXCEPT ![t] = ConnectionError]
  /\ UNCHANGED <<shared, started, op, calls, waits, config, error, thrown>>

\* retryRequest's catch, throw branch, followed by the operation's catch.
Throw(t) ==
  /\ pc[t] = "caught"
  /\ op[t].wrapped
  /\ ~ShouldRetry(error[t], i[t], Retries(op[t]))
  /\ thrown' = [thrown EXCEPT ![t] = error[t]]
  /\ result' = [result EXCEPT ![t] = OpThrow(error[t])]
  /\ pc' = [pc EXCEPT ![t] = "threw"]
  /\ UNCHANGED <<shared, started, op, i, calls, waits, config, error, res>>

\* login's catch: the rejection of api.post goes straight to the catch.
LoginCatch(t) ==
  /\ pc[t] = "caught"
  /\ ~op[t].wrapped
  /\ thrown' = [thrown EXCEPT ![t] = error[t]]
  /\ result' = [result EXCEPT ![t] = OpThrow(error[t])]
  /\ pc' = [pc EXCEPT ![t] = "threw"]
  /\ UNCHANGED <<shared, started, op, i, calls, waits, config, error, res>>

\* The caller has taken the outcome; the task slot is free again.
Settle(t) ==
  /\ pc[t] \in {"returned", "threw"}
  /\ pc' = [pc EXCEPT ![t] = "idle"]
  /\ op' = [op EXCEPT ![t] = NoOp]
  /\ i' = [i EXCEPT ![t] = 0]
  /\ calls' = [calls EXCEPT ![t] = 0]
  /\ waits' = [waits EXCEPT ![t] = <<>>]
  /\ config' = [config EXCEPT ![t] = BaseConfig(NoOp)]
  /\ error' = [error EXCEPT ![t] = NoEnhanced]
  /\ thrown' = [thrown EXCEPT ![t] = NoEnhanced]
  /\ res' = [res EXCEPT ![t] = NoResponse]
  /\ result' = [result EXCEPT ![t] = Undefined]
  /\ UNCHANGED <<shared, started>>

\* The browser loads the page assigned to window.location.href.
LoadLogin ==
  /\ navigating
  /\ navigating' = FALSE
  /\ pathname' = "/login"
  /\ UNCHANGED <<localStorage, navigations, started, pc, op, i, calls, waits,
                 config, error, thrown, res, result>>

\* The application's login flow stores the token and user it received.
StoreSession(s) ==
  /\ s.token # Null
  /\ localStorage["token"] = Null
  /\ localStorage' = s
  /\ UNCHANGED <<pathname, navigating, navigations, started, pc, op, i, calls,
                 waits, config, error, thrown, res, result>>

Next ==
  \/ \E t \in Tasks, o \in Operations : Call(t, o)
  \/ \E t \in Tasks : Send(t)
  \/ \E t \in Tasks, body \in Envelopes : Succeed(t, body)
  \/ \E t \in Tasks, status \in ServerStatuses, body \in ErrorBodies :
       FailHttp(t, status, body)
  \/ \E t \in Tasks : FailTimeout(t)
  \/ \E t \in Tasks : FailUnreachable(t)
  \/ \E t \in Tasks : Backoff(t)
  \/ \E t \in Tasks : Resume(t)
  \/ \E t \in Tasks : Throw(t)
  \/ \E t \in Tasks : LoginCatch(t)
  \/ \E t \in Tasks : Settle(t)
  \/ LoadLogin
  \/ \E s \in Sessions : StoreSession(s)

Spec == Init /\ [][Next]_vars

TypeOK ==
  /\ localStorage \in Sessions
  /\ pathname \in {"/login", "/dashboard"}
  /\ started \in 0..MaxCalls
  /\ \A t \in Tasks : i[t] \in 0..(retries - 1)

(* ------------------------------------------------------------------ *)
(* Single-task specification: one call at a time, every status of the  *)
(* response interceptor's switch, and retryRequest with every retries  *)
(* argument up to MaxRetries                                           *)
(* ------------------------------------------------------------------ *)

Solo == {1}

\* Every status the switch lists, and 503 for those it does not.
TableStatuses == {400, 401, 403, 404, 422, 429, 500, 503}

\* No body, a body with an error field, with an empty error field, and
\* without an error field.
TableBodies == {Undefined, [error |-> "not found"], [error |-> ""],
                [message |-> "down"]}

\* A rejection with neither response nor request: the request was cancelled
\* or could not be set up.
SetupFailure == [response |-> Undefined, request |-> FALSE,
                 code |-> "ERR_CANCELED"]

\* The operation o calling retryRequest(fn, n).
WithRetries(o, n) ==
  [name |-> o.name, method |-> o.method, path |-> o.path,
   wrapped |-> o.wrapped, unwrap |-> o.unwrap, retries |-> n]

SoloOperations ==
  Operations \cup {WithRetries(getApartments, n) : n \in 0..MaxRetries}

\* The request fails before it reaches the network.
FailSetup(t) ==
  /\ pc[t] = "inflight"
  /\ Reject(t, SetupFailure)

\* The transport settles the request in flight.
Respond(t) ==
  \/ \E body \in Envelopes : Succeed(t, body)
  \/ \E status \in TableStatuses, body \in TableBodies :
       FailHttp(t, status, body)
  \/ FailTimeout(t)
  \/ FailUnreachable(t)
  \/ FailSetup(t)

\* The continuations the event loop runs for a task once they are ready.
Continue(t) ==
  Send(t) \/ Backoff(t) \/ Resume(t) \/ Throw(t) \/ LoginCatch(t)

NextSolo ==
  \/ \E t \in Solo, o \in SoloOperations : Call(t, o)
  \/ \E t \in Solo : Send(t)
  \/ \E t \in Solo, body \in Envelopes : Succeed(t, body)
  \/ \E t \in Solo, status \in TableStatuses, body \in TableBodies :
       FailHttp(t, status, body)
  \/ \E t \in Solo : FailTimeout(t)
  \/ \E t \in Solo : FailUnreachable(t)
  \/ \E t \in Solo : FailSetup(t)
  \/ \E t \in Solo : Backoff(t)
  \/ \E t \in Solo : Resume(t)
  \/ \E t \in Solo : Throw(t)
  \/ \E t \in Solo : LoginCatch(t)
  \/ \E t \in Solo : Settle(t)
  \/ LoadLogin
  \/ \E s \in Sessions : StoreSession(s)

SpecSolo == Init /\ [][NextSolo]_vars

\* Every transport call completes, every timer fires and the event loop runs
\* every ready continuation.
FairSolo ==
  /\ SpecSolo
  /\ \A t \in Solo : WF_vars(Respond(t)) /\ WF_vars(Continue(t))

(* ------------------------------------------------------------------ *)
(* Properties                                                          *)
(* ------------------------------------------------------------------ *)

\* The failure carries a non-empty userMessage.
HasUserMessage(v) == "userMessage" \in DOMAIN v /\ v.userMessage # ""

\* C1: with the defaults, a wrapped operation whose every attempt is
\* answered 429 makes exactly 3 requests, waits 1000ms after the first
\* failure and 2000ms after the second (3000ms in all), does not wait after
\* the third, and then fails.
C1_RateLimitedThreeAttempts ==
  \A t \in Tasks :
    /\ (op[t].wrapped /\ StatusOf(error[t]) = 429 /\ pc[t] = "backoff")
         => /\ calls[t] < 3
            /\ waits[t] = SubSeq(<<1000, 2000>>, 1, calls[t])
    /\ (op[t].wrapped /\ StatusOf(error[t]) = 429 /\ pc[t] = "threw")
         => /\ calls[t] = 3
            /\ waits[t] = <<1000, 2000>>
            /\ waits[t][1] + waits[t][2] = 3000
            /\ StatusOf(thrown[t]) = 429

C1_Witness ==
  \E t \in Tasks :
    /\ op[t] = getApartments
    /\ pc[t] = "threw"
    /\ StatusOf(thrown[t]) = 429
    /\ calls[t] = 3

\* C2: a failure other than 429 is never retried: whatever the attempt
\* index, the step after it throws that failure, with no further request
\* and no backoff wait.
C2_OtherFailureNotRetried ==
  [][\A t \in Tasks :
       (pc[t] = "caught" /\ StatusOf(error[t]) # 429 /\ pc'[t] # "caught")
         => /\ pc'[t] = "threw"
            /\ thrown'[t] = error[t]
            /\ calls'[t] = calls[t]
            /\ waits'[t] = waits[t]]_vars

C2_Witness ==
  \E t \in Tasks :
    /\ pc[t] = "threw"
    /\ i[t] = 1
    /\ calls[t] = 2
    /\ waits[t] = <<1000>>
    /\ thrown[t].code = "ECONNABORTED"

\* C3: an operation that fails hands its caller the normalized failure,
\* which carries a non-empty userMessage.
C3_CallerGetsNormalizedFailure ==
  \A t \in Tasks :
    pc[t] = "threw" => HasUserMessage(result[t]) /\ result[t] = thrown[t]

\* C4: the step that handles a response with status 401, for any operation
\* and at any attempt, leaves neither a token nor a user in localStorage,
\* whatever the current location.
C4_UnauthorizedClearsSession ==
  [][\A t \in Tasks :
       (pc[t] = "inflight" /\ pc'[t] = "caught" /\ StatusOf(error'[t]) = 401)
         => /\ localStorage'["token"] = Null
            /\ localStorage'["user"] = Null]_vars

C4_Witness ==
  \E t, u \in Tasks :
    /\ op[t] = login /\ pc[t] = "caught" /\ StatusOf(error[t]) = 401
    /\ op[u] = getApartments /\ pc[u] = "caught" /\ i[u] = 1
    /\ StatusOf(error[u]) = 401
    /\ pathname = "/login"
    /\ localStorage["token"] = Null
    /\ localStorage["user"] = Null

\* C5: over any sequence of 401 responses, those of operations in flight at
\* the same time included, navigation to the login page is triggered at
\* most once.
C5_NavigatesAtMostOnce == navigations <= 1

\* C6: every request handed to the transport, retries included, carries the
\* Authorization header exactly when localStorage holds a token at the
\* moment of sending, and the header carries that token.
C6_AuthorizationMatchesStore ==
  [][\A t \in Tasks :
       (pc[t] = "attempt" /\ pc'[t] = "inflight")
         => IF localStorage["token"] # Null
            THEN config'[t].Authorization = Bearer(localStorage["token"])
            ELSE IsUndefined(config'[t].Authorization)]_vars

C6_Witness ==
  \E t, u \in Tasks :
    /\ pc[t] = "inflight" /\ i[t] = 1
    /\ config[t].Authorization = Bearer("tok2")
    /\ pc[u] = "inflight"
    /\ IsUndefined(config[u].Authorization)

\* C7: a non-delete operation that succeeds returns the data field of the
\* envelope of the successful attempt, a delete operation the whole
\* envelope.
C7_ReturnsEnvelopeData ==
  \A t \in Tasks :
    pc[t] = "returned"
      => /\ res[t].data \in Envelopes
         /\ op[t].method # "delete" => result[t] = res[t].data.data
         /\ op[t].method = "delete" => result[t] = res[t].data

C7_Witness ==
  \E t, u \in Tasks :
    /\ op[t] = getApartments /\ pc[t] = "returned" /\ result[t] = [id |-> 1]
    /\ op[u] = deleteApartment /\ pc[u] = "returned"
    /\ result[u] = [data |-> [id |-> 2], success |-> TRUE]

\* C8: a wrapped operation whose first k < 3 attempts are answered 429 and
\* whose next attempt succeeds returns the payload of that attempt after
\* exactly k+1 requests, having waited 1000ms * 2^j before attempt j+1.
C8_SucceedsAfterRateLimits ==
  \A t \in Tasks :
    (op[t].wrapped /\ pc[t] = "returned")
      => /\ i[t] < 3
         /\ calls[t] = i[t] + 1
         /\ waits[t] = SubSeq(<<1000, 2000>>, 1, i[t])
         /\ i[t] > 0 => StatusOf(error[t]) = 429
         /\ result[t] = IF op[t].method = "delete" THEN res[t].data
                        ELSE res[t].data.data

C8_Witness ==
  \E t \in Tasks :
    /\ op[t] = getApartments
    /\ pc[t] = "returned"
    /\ res[t].data = [data |-> [id |-> 1], success |-> TRUE]
    /\ result[t] = [id |-> 1]
    /\ calls[t] = 3
    /\ waits[t] = <<1000, 2000>>

\* C9: when an operation fails with a status that has a body, the failure
\* its caller receives carries the userMessage of that status (for 404,
\* "Recurso no encontrado") and the original server payload.
C9_FailureCarriesMessageAndPayload ==
  \A t \in Tasks :
    (pc[t] = "threw" /\ StatusOf(thrown[t]) = 404
       /\ ~IsUndefined(thrown[t].response.data))
      => /\ HasUserMessage(result[t])
         /\ result[t].userMessage = "Recurso no encontrado"
         /\ result[t].response.data = thrown[t].response.data

\* C10: a request that times out is attempted once, is not retried, and
\* reaches the caller as a failure carrying the "took too long" message,
\* not the connection-error message.
C10_TimeoutSurfacesAsTimeout ==
  \A t \in Tasks :
    (pc[t] = "threw" /\ thrown[t].code = "ECONNABORTED" /\ i[t] = 0)
      => /\ calls[t] = 1
         /\ waits[t] = <<>>
         /\ HasUserMessage(result[t])
         /\ result[t].userMessage =
              "La solicitud ha tardado demasiado. Verifica tu conexion"

\* The server-provided error field of a failure, "" when there is none.
ServerText(e) ==
  IF IsUndefined(e.response) THEN ""
  ELSE IF "error" \in DOMAIN e.response.data THEN e.response.data.error
  ELSE ""

\* C11: the userMessage attached to a failure follows the status table:
\* 400, 422 and every unlisted status give the server's error field when it
\* has one and otherwise their default; 401, 403, 404, 429 and 500 give their
\* fixed message whatever the body; timeout and unreachable give theirs; a
\* failure with neither response nor request gives the generic message; the
\* userMessage is never empty.
C11_NormalizerFollowsTable ==
  \A t \in Tasks :
    LET e == error[t].originalError
        m == error[t].userMessage
        status == StatusOf(e)
        text == ServerText(e)
        FromServerOr(default) == IF text # "" THEN m = text ELSE m = default
    IN /\ m # ""
       /\ status = 400 => FromServerOr("Datos invalidos")
       /\ status = 422 => FromServerOr("Datos de entrada invalidos")
       /\ status = 503 => FromServerOr("Error 503")
       /\ status = 401
            => m = "Sesion expirada. Por favor, inicia sesion nuevamente"
       /\ status = 403 => m = "No tienes permisos para realizar esta accion"
       /\ status = 404 => m = "Recurso no encontrado"
       /\ status = 429
            => m = "Demasiadas solicitudes. Reintentando automaticamente..."
       /\ status = 500 => m = "Error interno del servidor. Intentalo mas tarde"
       /\ (IsUndefined(e.response) /\ e.request /\ e.code = "ECONNABORTED")
            => m = "La solicitud ha tardado demasiado. Verifica tu conexion"
       /\ (IsUndefined(e.response) /\ e.request /\ e.code # "ECONNABORTED")
            => m = "Error de conexion. Verifica tu conexion a internet"
       /\ (IsUndefined(e.response) /\ ~e.request)
            => m = "Ha ocurrido un error inesperado"
       /\ error[t].response = e.response

C11_Witness ==
  \E t \in Tasks :
    /\ pc[t] = "caught"
    /\ StatusOf(error[t]) = 422
    /\ error[t].response.data = [error |-> "not found"]
    /\ error[t].userMessage = "not found"

\* C12: a 429 answered to any exported operation, login included, is
\* retried up to the attempt bound before it reaches the caller.
C12_RateLimitAlwaysRetried ==
  \A t \in Tasks :
    (pc[t] = "threw" /\ StatusOf(thrown[t]) = 429)
      => calls[t] = retries /\ Len(waits[t]) = retries - 1

\* C13: for every retries argument, retryRequest either returns the
\* response of an invocation that succeeded or throws the failure of its
\* last invocation; it never returns undefined.
C13_RetryReturnsOrRethrows ==
  \A t \in Tasks :
    (op[t].wrapped /\ pc[t] \in {"returned", "threw"})
      => \/ /\ pc[t] = "returned"
            /\ res[t].data \in Envelopes
         \/ /\ pc[t] = "threw"
            /\ ~IsUndefined(res[t])
            /\ calls[t] >= 1
            /\ thrown[t] = error[t]

\* C14: no step of the pipeline writes a token or a user, and the only step
\* of the pipeline that changes localStorage or the location is the handling
\* of a response with status 401.
C14_OnlyUnauthorizedTouchesSession ==
  [][pc' # pc
       => /\ localStorage'["token"] \in {localStorage["token"], Null}
          /\ localStorage'["user"] \in {localStorage["user"], Null}
          /\ pathname' = pathname
          /\ (localStorage' # localStorage \/ navigations' # navigations
                \/ navigating' # navigating)
               => \E t \in Tasks : /\ pc[t] = "inflight"
                                   /\ pc'[t] = "caught"
                                   /\ StatusOf(error'[t]) = 401]_vars

C14_Witness ==
  \E t, u \in Tasks :
    /\ pc[t] = "returned"
    /\ pc[u] = "threw" /\ StatusOf(thrown[u]) = 404
    /\ localStorage = [token |-> "tok1", user |-> "user1"]
    /\ pathname = "/dashboard"
    /\ navigations = 0

\* The request a task would hand to the transport if it sent one now.
NextRequest(t) ==
  RequestInterceptor(BaseConfig(op[t]), localStorage["token"])

\* C15 as stated: while a task is about to send a request or waits to retry,
\* no step of another task changes the request it will send.
C15_OtherTasksNeverChangeRequests ==
  [][\A t, u \in Tasks :
       (t # u /\ pc[t] \in {"attempt", "backoff"} /\ pc'[u] # pc[u])
         => NextRequest(t)' = NextRequest(t)]_vars

\* C15 as amended: a step of another task changes neither the progress of a
\* task (attempts, waits, request in flight, last failure) nor the method and
\* path of its next request; it changes the Authorization header of that
\* request only by handling a 401, which removes the header.
C15_OnlyUnauthorizedChangesHeader ==
  [][\A t, u \in Tasks :
       (t # u /\ pc[t] \in {"attempt", "inflight", "caught", "backoff"}
          /\ pc'[u] # pc[u])
         => /\ pc'[t] = pc[t] /\ i'[t] = i[t] /\ calls'[t] = calls[t]
            /\ waits'[t] = waits[t] /\ config'[t] = config[t]
            /\ error'[t] = error[t]
            /\ NextRequest(t)'.method = NextRequest(t).method
            /\ NextRequest(t)'.url = NextRequest(t).url
            /\ NextRequest(t)' # NextRequest(t)
                 => /\ pc[u] = "inflight" /\ pc'[u] = "caught"
                    /\ StatusOf(error'[u]) = 401
                    /\ IsUndefined(NextRequest(t)'.Authorization)]_vars

C15_Witness ==
  \E t, u \in Tasks :
    /\ t # u
    /\ pc[t] = "backoff"
    /\ pc[u] = "caught" /\ StatusOf(error[u]) = 401
    /\ localStorage["token"] = Null
    /\ navigations = 1
    /\ IsUndefined(NextRequest(t).Authorization)

\* C16: the caller of a failed operation receives the server's response body
\* when there is one and the connection-error object otherwise, the same for
\* a timeout, an unreachable network and an HTTP error without body.
C16_CallerGetsBodyOrFallback ==
  \A t \in Tasks :
    pc[t] = "threw"
      => IF ~IsUndefined(thrown[t].response)
            /\ ~IsUndefined(thrown[t].response.data)
         THEN result[t] = thrown[t].response.data
         ELSE result[t] = [error |-> "Error de conexion"]

C16_Witness ==
  \E t, u \in Tasks :
    /\ pc[t] = "threw" /\ thrown[t].code = "ECONNABORTED"
    /\ pc[u] = "threw" /\ StatusOf(thrown[u]) = 404
    /\ IsUndefined(thrown[u].response.data)
    /\ result[t] = result[u]
    /\ result[t] = [error |-> "Error de conexion"]

\* C17: when every transport call completes, every operation call completes,
\* after at most retries requests and at most retries - 1 backoff waits (none
\* when retries is 0), also when every answer is a 429.
C17_EveryCallCompletes ==
  /\ [](\A t \in Tasks :
          /\ calls[t] <= Retries(op[t])
          /\ Len(waits[t]) <= IF Retries(op[t]) = 0 THEN 0
                              ELSE Retries(op[t]) - 1)
  /\ \A t \in Tasks :
       (pc[t] \in {"attempt", "inflight", "caught", "backoff"})
         ~> (pc[t] \in {"returned", "threw"})

C17_Witness ==
  \E t \in Tasks :
    /\ op[t] = WithRetries(getApartments, 2)
    /\ pc[t] = "threw"
    /\ StatusOf(thrown[t]) = 429
    /\ calls[t] = 2
    /\ waits[t] = <<1000>>

====
